---- MODULE Spec2Model ----
(***************************************************************************)
(* Quantitative Z3 encoding of a flow graph                                *)
(* (src/src/backends/z3_quant/model_entities.rs).                          *)
(*                                                                         *)
(* One encoding pass walks all edges, then all nodes, of a flow graph and  *)
(* fills a Z3QuantHelper: edge_map, input_map, output_map and the ordered  *)
(* constraint list `others`.  Constraints are kept as syntax trees, and    *)
(* their meaning is given by evaluating them under assignments of rational *)
(* values (multiples of 1/Scale) to the solver constants.                  *)
(***************************************************************************)
EXTENDS Integers, Sequences, FiniteSets, TLC

VARIABLES graph, helper, pc, crashed, outcome, pass, first

vars == <<graph, helper, pc, crashed, outcome, pass, first>>

---------------------------------------------------------------------------
(* Bounds of the model.                                                    *)

\* largest number of edges entering the node under test
MaxIn == 2
\* largest number of edges leaving the node under test
MaxOut == 3
\* Input nodes carry an external id in 0..MaxId
MaxId == 1
\* assignments take the values -1/Scale, 0/Scale, 1/Scale, ..., GridMax/Scale
Scale == 2
GridMax == 10

---------------------------------------------------------------------------
(* Numbers.  A capacity is a GenericFraction<u128>: numerator and          *)
(* denominator are unsigned 128-bit integers.  A u128 is kept in pieces:   *)
(* lo = bits 0..15, mid = bits 16..31, hi = bits 32..127, so that the      *)
(* `as i32` casts can be computed on the bits they keep.                   *)

\* width of the i32 that Real::from_real takes
I32Bits == 32

LimbBase == 2 ^ (I32Bits \div 2)

U128(hi, mid, lo) == [hi |-> hi, mid |-> mid, lo |-> lo]

\* the u128 of a natural number below 2^31
Nat128(n) == U128(0, n \div LimbBase, n % LimbBase)

\* `x as i32` for x : u128 -- keeps the low 32 bits, read as two's complement
AsI32(x) ==
    IF x.mid >= LimbBase \div 2
    THEN (x.mid - LimbBase) * LimbBase + x.lo
    ELSE x.mid * LimbBase + x.lo

\* k * x for a small natural k
MulSmall(k, x) ==
    LET plo  == k * x.lo
        pmid == k * x.mid + plo \div LimbBase
    IN  U128(k * x.hi + pmid \div LimbBase, pmid % LimbBase, plo % LimbBase)

\* x / 2 for an even x
Half(x) ==
    U128(x.hi \div 2,
         x.mid \div 2 + (x.hi % 2) * (LimbBase \div 2),
         x.lo \div 2 + (x.mid % 2) * (LimbBase \div 2))

BigLeq(a, b) ==
    \/ a.hi < b.hi
    \/ a.hi = b.hi /\ a.mid < b.mid
    \/ a.hi = b.hi /\ a.mid = b.mid /\ a.lo <= b.lo

Frac(n, d) == [num |-> n, den |-> d]

\* a <= b on fractions whose denominators are below 2^15 (all that are drawn)
FracLeq(a, b) == BigLeq(MulSmall(b.den.lo, a.num), MulSmall(a.den.lo, b.num))

\* `cap * 2` on a reduced fraction: the product is reduced again
FracDouble(c) ==
    IF c.den.lo % 2 = 0
    THEN Frac(c.num, Half(c.den))
    ELSE Frac(MulSmall(2, c.num), c.den)

---------------------------------------------------------------------------
(* Solver terms and formulas (z3::ast).                                    *)

Name(fmt, args) == [fmt |-> fmt, args |-> args]

\* Real::new_const / Int::new_const
NewConst(sort, name) == [t |-> "const", sort |-> sort, name |-> name]
\* Real::from_real(ctx, num, den)
FromReal(num, den) == [t |-> "num", num |-> num, den |-> den]
\* Real::from_int
FromInt(x) == [t |-> "to_real", arg |-> x]
\* Real::add(ctx, &[...])
Add(args) == [t |-> "add", args |-> args]
Le(a, b) == [t |-> "le", lhs |-> a, rhs |-> b]
Ge(a, b) == [t |-> "ge", lhs |-> a, rhs |-> b]
Eq(a, b) == [t |-> "eq", lhs |-> a, rhs |-> b]
Ite(c, a, b) == [t |-> "ite", cond |-> c, then |-> a, else |-> b]

\* Z3Fraction::to_z3
to_z3(c) == FromReal(AsI32(c.num), AsI32(c.den))

---------------------------------------------------------------------------
(* The flow graph (crate::ir), read only.  Node and edge identities are    *)
(* the positions 1..n in graph.nodes and graph.edges.                      *)

Sides == {"Left", "Right"}
NoPriority == "None"
other(side) == IF side = "Left" THEN "Right" ELSE "Left"

NumEdges(g) == Len(g.edges)
NumNodes(g) == Len(g.nodes)

\* the members of a set of identities, in ascending order
RECURSIVE Ascending(_)
Ascending(S) ==
    IF S = {} THEN <<>>
    ELSE LET m == CHOOSE x \in S : \A y \in S : x <= y
         IN  <<m>> \o Ascending(S \ {m})

in_edge_idx(g, node_idx) ==
    Ascending({e \in 1..NumEdges(g) : g.edges[e].dst = node_idx})

out_edge_idx(g, node_idx) ==
    Ascending({e \in 1..NumEdges(g) : g.edges[e].src = node_idx})

\* get_edge(idx, Outgoing, side): the first outgoing edge on that side, 0 if none
get_edge(g, node_idx, side) ==
    LET found == Ascending({e \in 1..NumEdges(g) :
                     g.edges[e].src = node_idx /\ g.edges[e].side = side})
    IN  IF found = <<>> THEN 0 ELSE found[1]

---------------------------------------------------------------------------
(* The encoding context (Z3QuantHelper).                                   *)

EmptyMap == [x \in {} |-> 0]

EmptyHelper ==
    [edge_map |-> EmptyMap, input_map |-> EmptyMap,
     output_map |-> EmptyMap, others |-> <<>>]

\* HashMap::insert: a later value replaces an earlier one
Insert(m, k, v) == (k :> v) @@ m

Push(h, ast) == [h EXCEPT !.others = Append(@, ast)]

Ok(h) == [helper |-> h, outcome |-> "ok"]
Panic(h) == [helper |-> h, outcome |-> "panic"]

---------------------------------------------------------------------------
(* The encoders.  Each returns the helper it leaves behind and whether it  *)
(* returned ("ok") or panicked ("panic": an index out of bounds, or an     *)
(* unwrap of None).                                                        *)

EdgeName(idx) == Name("edge_{}", <<idx>>)
InputName(idx, id) == Name("input{}_{}", <<idx, id>>)
OutputName(idx) == Name("output{}", <<idx>>)

Zero == FromReal(0, 1)

\* Z3Edge for Edge :: model
EdgeModel(self, idx, h) ==
    LET numer    == AsI32(self.capacity.num)
        denom    == AsI32(self.capacity.den)
        capacity == FromReal(numer, denom)
        edge     == NewConst("Real", EdgeName(idx))
        h1       == Push(h, Le(edge, capacity))
        h2       == Push(h1, Ge(edge, Zero))
    IN  [h2 EXCEPT !.edge_map = Insert(@, idx, edge)]

\* edge_map.get(idx).unwrap() succeeds for every idx of the sequence
AllMapped(h, idxs) == \A i \in 1..Len(idxs) : idxs[i] \in DOMAIN h.edge_map

Consts(h, idxs) == [i \in 1..Len(idxs) |-> h.edge_map[idxs[i]]]

\* kirchhoff_law storing its constraint as the whole list instead of pushing it
kirchhoff_law_Overwrite(node_idx, g, h) ==
    LET ins  == in_edge_idx(g, node_idx)
        outs == out_edge_idx(g, node_idx)
    IN  IF ~AllMapped(h, ins) \/ ~AllMapped(h, outs) THEN Panic(h)
        ELSE Ok([h EXCEPT !.others = <<Eq(Add(Consts(h, ins)), Add(Consts(h, outs)))>>])

\* kirchhoff_law taking both sums over the incoming edges
kirchhoff_law_InTwice(node_idx, g, h) ==
    LET ins  == in_edge_idx(g, node_idx)
        outs == in_edge_idx(g, node_idx)
    IN  IF ~AllMapped(h, ins) \/ ~AllMapped(h, outs) THEN Panic(h)
        ELSE Ok(Push(h, Eq(Add(Consts(h, ins)), Add(Consts(h, outs)))))

\* fn kirchhoff_law
kirchhoff_law(node_idx, g, h) ==
    LET ins  == in_edge_idx(g, node_idx)
        outs == out_edge_idx(g, node_idx)
    IN  IF ~AllMapped(h, ins) \/ ~AllMapped(h, outs) THEN Panic(h)
        ELSE Ok(Push(h, Eq(Add(Consts(h, ins)), Add(Consts(h, outs)))))

\* Z3Node for Connector :: model
ConnectorModel(self, g, idx, h) == kirchhoff_law(idx, g, h)

\* Z3Node for Merger :: model
MergerModel(self, g, idx, h) == kirchhoff_law(idx, g, h)

\* Z3Node for Input :: model
InputModel(self, g, idx, h) ==
    LET input      == NewConst("Int", InputName(idx, self.id))
        input_real == FromInt(input)
        h1         == [h EXCEPT !.input_map = Insert(@, idx, input)]
        outs       == out_edge_idx(g, idx)
    IN  IF Len(outs) = 0 THEN Panic(h1)
        ELSE IF outs[1] \notin DOMAIN h1.edge_map THEN Panic(h1)
        ELSE Ok(Push(h1, Eq(input_real, h1.edge_map[outs[1]])))

\* Output::model creating its variable with Int::new_const, as Input::model does
OutputModel_IntSort(self, g, idx, h) ==
    LET output == NewConst("Int", OutputName(idx))
        ins    == in_edge_idx(g, idx)
    IN  IF Len(ins) = 0 THEN Panic(h)
        ELSE IF ins[1] \notin DOMAIN h.edge_map THEN Panic(h)
        ELSE LET h1 == Push(h, Eq(FromInt(output), h.edge_map[ins[1]]))
             IN  Ok([h1 EXCEPT !.output_map = Insert(@, idx, output)])

\* Z3Node for Output :: model
OutputModel(self, g, idx, h) ==
    LET output == NewConst("Real", OutputName(idx))
        ins    == in_edge_idx(g, idx)
    IN  IF Len(ins) = 0 THEN Panic(h)
        ELSE IF ins[1] \notin DOMAIN h.edge_map THEN Panic(h)
        ELSE LET h1 == Push(h, Eq(output, h.edge_map[ins[1]]))
             IN  Ok([h1 EXCEPT !.output_map = Insert(@, idx, output)])

\* the min/max choice with a strict comparison: a tie goes to the second edge
MinMax_Strict(g, a_idx, b_idx) ==
    IF ~FracLeq(g.edges[b_idx].capacity, g.edges[a_idx].capacity)
    THEN <<a_idx, b_idx>>
    ELSE <<b_idx, a_idx>>

\* the None arm of Splitter::model: which outgoing edge is min, which max
MinMax(g, a_idx, b_idx) ==
    IF FracLeq(g.edges[a_idx].capacity, g.edges[b_idx].capacity)
    THEN <<a_idx, b_idx>>
    ELSE <<b_idx, a_idx>>

\* the None arm of Splitter::model
SplitterNone(g, idx, h, in_var) ==
    LET out_idxs == out_edge_idx(g, idx)
    IN  IF Len(out_idxs) < 2 THEN Panic(h)
        ELSE
        LET mm          == MinMax(g, out_idxs[1], out_idxs[2])
            min_idx     == mm[1]
            max_idx     == mm[2]
            min_var     == h.edge_map[min_idx]
            max_var     == h.edge_map[max_idx]
            min_cap     == g.edges[min_idx].capacity
            min_cap_var == to_z3(min_cap)
            out_min     == FracDouble(min_cap)
            out_min_var == to_z3(out_min)
        IN  IF min_idx \notin DOMAIN h.edge_map \/ max_idx \notin DOMAIN h.edge_map
            THEN Panic(h)
            ELSE Ok(Push(h, Ite(Le(in_var, out_min_var),
                                Eq(min_var, max_var),
                                Eq(min_var, min_cap_var))))

\* the Some(side) arm of Splitter::model
SplitterSome(g, idx, h, in_var, side) ==
    LET prio_idx  == get_edge(g, idx, side)
        other_idx == get_edge(g, idx, other(side))
    IN  IF prio_idx \notin DOMAIN h.edge_map \/ other_idx \notin DOMAIN h.edge_map
        THEN Panic(h)
        ELSE
        LET prio_var     == h.edge_map[prio_idx]
            other_var    == h.edge_map[other_idx]
            prio_cap     == g.edges[prio_idx].capacity
            prio_cap_var == to_z3(prio_cap)
        IN  Ok(Push(h, Ite(Le(in_var, prio_cap_var),
                           Eq(other_var, Zero),
                           Eq(prio_var, prio_cap_var))))

\* Z3Node for Splitter :: model
SplitterModel(self, g, idx, h) ==
    LET k   == kirchhoff_law(idx, g, h)
        ins == in_edge_idx(g, idx)
    IN  IF k.outcome = "panic" THEN k
        ELSE IF Len(ins) = 0 THEN Panic(k.helper)
        ELSE IF ins[1] \notin DOMAIN k.helper.edge_map THEN Panic(k.helper)
        ELSE LET in_var == k.helper.edge_map[ins[1]]
             IN  IF self.output_priority = NoPriority
                 THEN SplitterNone(g, idx, k.helper, in_var)
                 ELSE SplitterSome(g, idx, k.helper, in_var, self.output_priority)

\* Z3Node for Node :: model
NodeModel(self, g, idx, h) ==
    CASE self.kind = "Connector" -> ConnectorModel(self, g, idx, h)
      [] self.kind = "Input"     -> InputModel(self, g, idx, h)
      [] self.kind = "Output"    -> OutputModel(self, g, idx, h)
      [] self.kind = "Merger"    -> MergerModel(self, g, idx, h)
      [] self.kind = "Splitter"  -> SplitterModel(self, g, idx, h)

---------------------------------------------------------------------------
(* The graphs that are encoded: one node under test (identity 1, of any    *)
(* kind) with nIn incoming and nOut outgoing edges; every incoming edge    *)
(* starts at an Input node of its own and every outgoing edge ends at an   *)
(* Output node of its own.  Connector, Merger and Splitter are drawn with  *)
(* at least one edge on either side (Real::add is given a non-empty list), *)
(* a Splitter with a priority side with exactly two outgoing edges, one on *)
(* each side (get_edge finds both).                                        *)

Kinds == {"Connector", "Input", "Output", "Merger", "Splitter"}

\* 2, 5, 3/2, 2^32 + 2 and 2^32 + 5
Caps ==
    { Frac(Nat128(2), Nat128(1)), Frac(Nat128(5), Nat128(1)),
      Frac(Nat128(3), Nat128(2)),
      Frac(U128(1, 0, 2), Nat128(1)), Frac(U128(1, 0, 5), Nat128(1)) }

Node(kind, id, prio) == [kind |-> kind, id |-> id, output_priority |-> prio]
Edge(src, dst, cap, side) == [src |-> src, dst |-> dst, capacity |-> cap, side |-> side]

SideOf(k, firstSide) == IF k % 2 = 1 THEN firstSide ELSE other(firstSide)

StarGraph(kind, nIn, nOut, cIn, cA, cB, prio, firstSide, id) ==
    [nodes |->
        <<Node(kind, id, prio)>>
        \o [i \in 1..nIn |-> Node("Input", i, NoPriority)]
        \o [j \in 1..nOut |-> Node("Output", 0, NoPriority)],
     edges |->
        [i \in 1..nIn |-> Edge(1 + i, 1, cIn, SideOf(i, "Left"))]
        \o [j \in 1..nOut |->
              Edge(1, 1 + nIn + j, IF j = 2 THEN cB ELSE cA, SideOf(j, firstSide))]]

Graphs ==
    { StarGraph(p[1], p[2], p[3], p[4], p[5], p[6], p[7], p[8], p[9]) :
        p \in { q \in Kinds \X (0..MaxIn) \X (0..MaxOut) \X Caps \X Caps \X Caps
                      \X (Sides \cup {NoPriority}) \X Sides \X (0..MaxId) :
                /\ q[1] \in {"Connector", "Merger", "Splitter"}
                      => q[2] >= 1 /\ q[3] >= 1
                /\ q[1] # "Splitter" => q[7] = NoPriority /\ q[8] = "Left"
                /\ q[7] # NoPriority => q[3] = 2
                /\ q[1] # "Input" => q[9] = 0 } }

---------------------------------------------------------------------------
(* The encoding pass: every edge in identity order, then every node in     *)
(* identity order.  pc counts the entities encoded so far in this pass.    *)
(* A panic ends the run.  A finished first pass is followed by a second    *)
(* pass over the same graph with a fresh helper; `first` keeps the first   *)
(* pass's helper.                                                          *)

Total(g) == NumEdges(g) + NumNodes(g)

Init ==
    /\ graph \in Graphs
    /\ helper = EmptyHelper
    /\ pc = 0
    /\ crashed = FALSE
    /\ outcome = EmptyMap
    /\ pass = 1
    /\ first = EmptyHelper

EncodeEdge ==
    /\ ~crashed
    /\ pc < NumEdges(graph)
    /\ helper' = EdgeModel(graph.edges[pc + 1], pc + 1, helper)
    /\ pc' = pc + 1
    /\ UNCHANGED <<graph, crashed, outcome, pass, first>>

\* the node the pass encodes next
NextNode == pc - NumEdges(graph) + 1

\* the pass has reached a node of this kind
AtNode(kind) ==
    /\ ~crashed
    /\ pc >= NumEdges(graph)
    /\ pc < Total(graph)
    /\ graph.nodes[NextNode].kind = kind

\* what Node::model leaves behind for the node the pass has reached
Dispatch == NodeModel(graph.nodes[NextNode], graph, NextNode, helper)

EncodeConnector ==
    /\ AtNode("Connector")
    /\ helper' = Dispatch.helper
    /\ outcome' = Insert(outcome, NextNode, Dispatch.outcome)
    /\ crashed' = (Dispatch.outcome = "panic")
    /\ pc' = pc + 1
    /\ UNCHANGED <<graph, pass, first>>

EncodeInput ==
    /\ AtNode("Input")
    /\ helper' = Dispatch.helper
    /\ outcome' = Insert(outcome, NextNode, Dispatch.outcome)
    /\ crashed' = (Dispatch.outcome = "panic")
    /\ pc' = pc + 1
    /\ UNCHANGED <<graph, pass, first>>

EncodeOutput ==
    /\ AtNode("Output")
    /\ helper' = Dispatch.helper
    /\ outcome' = Insert(outcome, NextNode, Dispatch.outcome)
    /\ crashed' = (Dispatch.outcome = "panic")
    /\ pc' = pc + 1
    /\ UNCHANGED <<graph, pass, first>>

EncodeMerger ==
    /\ AtNode("Merger")
    /\ helper' = Dispatch.helper
    /\ outcome' = Insert(outcome, NextNode, Dispatch.outcome)
    /\ crashed' = (Dispatch.outcome = "panic")
    /\ pc' = pc + 1
    /\ UNCHANGED <<graph, pass, first>>

EncodeSplitter ==
    /\ AtNode("Splitter")
    /\ helper' = Dispatch.helper
    /\ outcome' = Insert(outcome, NextNode, Dispatch.outcome)
    /\ crashed' = (Dispatch.outcome = "panic")
    /\ pc' = pc + 1
    /\ UNCHANGED <<graph, pass, first>>

BeginSecondPass ==
    /\ ~crashed
    /\ pass = 1
    /\ pc = Total(graph)
    /\ first' = helper
    /\ helper' = EmptyHelper
    /\ outcome' = EmptyMap
    /\ pc' = 0
    /\ pass' = 2
    /\ UNCHANGED <<graph, crashed>>

Next ==
    \/ EncodeEdge
    \/ EncodeConnector
    \/ EncodeInput
    \/ EncodeOutput
    \/ EncodeMerger
    \/ EncodeSplitter
    \/ BeginSecondPass

Spec == Init /\ [][Next]_vars

---------------------------------------------------------------------------
(* Meaning of the constraints.  An assignment gives every solver constant  *)
(* a value h, standing for the rational h / Scale; a constant of sort Int  *)
(* only takes whole values.  Rationals are pairs <<p, q>> with q > 0.      *)

Grid == -1..GridMax

RatLeq(a, b) == a[1] * b[2] <= b[1] * a[2]
RatEq(a, b) == a[1] * b[2] = b[1] * a[2]
RatAdd(a, b) == <<a[1] * b[2] + b[1] * a[2], a[2] * b[2]>>

RECURSIVE RatSum(_)
RatSum(rs) ==
    IF rs = <<>> THEN <<0, 1>> ELSE RatAdd(rs[1], RatSum(Tail(rs)))

RECURSIVE TermVal(_, _)
TermVal(t, v) ==
    CASE t.t = "const"   -> <<v[t.name], Scale>>
      [] t.t = "num"     -> IF t.den < 0 THEN <<-t.num, -t.den>> ELSE <<t.num, t.den>>
      [] t.t = "to_real" -> TermVal(t.arg, v)
      [] t.t = "add"     -> RatSum([i \in 1..Len(t.args) |-> TermVal(t.args[i], v)])

RECURSIVE Holds(_, _)
Holds(f, v) ==
    CASE f.t = "le"  -> RatLeq(TermVal(f.lhs, v), TermVal(f.rhs, v))
      [] f.t = "ge"  -> RatLeq(TermVal(f.rhs, v), TermVal(f.lhs, v))
      [] f.t = "eq"  -> RatEq(TermVal(f.lhs, v), TermVal(f.rhs, v))
      [] f.t = "ite" -> IF Holds(f.cond, v) THEN Holds(f.then, v) ELSE Holds(f.else, v)

\* the values a constant of this sort takes
Values(sort) == IF sort = "Int" THEN {h \in Grid : h % Scale = 0} ELSE Grid

\* the well-sorted assignments to a set of solver constants
Assignments(consts) ==
    { v \in [{c.name : c \in consts} -> Grid] :
        \A c \in consts : v[c.name] \in Values(c.sort) }

\* the assignment of a to constant x and b to constant y
Assign2(x, a, y, b) == (x.name :> a) @@ (y.name :> b)

Satisfies(v, fs) == \A i \in 1..Len(fs) : Holds(fs[i], v)

Range(f) == {f[x] : x \in DOMAIN f}

\* the grid value h, as a rational, against the exact fraction c
ValLeqFrac(h, c) == BigLeq(MulSmall(h, c.den), MulSmall(Scale, c.num))
ValEqFrac(h, c) == MulSmall(h, c.den) = MulSmall(Scale, c.num)

\* the numeral n/d (n >= 0, d > 0, both small) has exactly the value of c
NumeralIs(t, c) ==
    /\ t.t = "num" /\ t.num >= 0 /\ t.den > 0
    /\ MulSmall(t.num, c.den) = MulSmall(t.den, c.num)

---------------------------------------------------------------------------
(* Places in the pass.                                                     *)

\* node n has been handed to its encoder in this pass
Encoded(n) == n \in DOMAIN outcome

\* the encoder of node n returned
Returned(n) == Encoded(n) /\ outcome[n] = "ok"

\* the position in `others` of the first bound constraint of edge e
BoundAt(e) == 2 * e - 1

InArity(g, n) == Len(in_edge_idx(g, n))
OutArity(g, n) == Len(out_edge_idx(g, n))

\* the arity rule of the node's kind is broken
Malformed(g, n) ==
    \/ g.nodes[n].kind = "Input" /\ OutArity(g, n) # 1
    \/ g.nodes[n].kind = "Output" /\ InArity(g, n) # 1
    \/ g.nodes[n].kind = "Splitter" /\ ~(InArity(g, n) = 1 /\ OutArity(g, n) = 2)

\* the node under test was the last entity encoded: `others` holds the bound
\* constraints of its incident edges and what its encoder appended
HubJustEncoded == pc = NumEdges(graph) + 1 /\ Encoded(1)

HubIs(kind) == graph.nodes[1].kind = kind

Cap(e) == graph.edges[e].capacity
Flow(v, e) == v[helper.edge_map[e].name]

\* what the encoder of the node under test appended, in order
HubOthers == SubSeq(helper.others, 2 * NumEdges(graph) + 1, Len(helper.others))

\* the outgoing edge of weakly smaller capacity, the first listed on a tie,
\* and the other one, for a node with two outgoing edges
SmallerOut(n) ==
    LET o == out_edge_idx(graph, n)
    IN  IF FracLeq(Cap(o[2]), Cap(o[1])) /\ ~FracLeq(Cap(o[1]), Cap(o[2]))
        THEN o[2] ELSE o[1]
LargerOut(n) ==
    LET o == out_edge_idx(graph, n)
    IN  IF SmallerOut(n) = o[1] THEN o[2] ELSE o[1]

---------------------------------------------------------------------------
(* Properties of the encoding.                                             *)

\* C1: every node whose incident-edge arity breaks the rule of its kind (Input
\* without exactly one outgoing edge, Output without exactly one incoming
\* edge, Splitter without one incoming and two outgoing edges) ends its
\* encoder in a reported error: the encoder neither panics nor returns as if
\* the node were well-formed.
C1_ArityViolationReported ==
    \A n \in DOMAIN outcome : Malformed(graph, n) => outcome[n] = "error"

\* the capacity and threshold numerals in the constraint list, each with the
\* exact fraction it stands for and the factor applied to it
CapacityNumerals ==
    { <<helper.others[BoundAt(e)].rhs, Cap(e), 1>> : e \in DOMAIN helper.edge_map }
    \cup
    (IF HubIs("Splitter") /\ Returned(1) /\ Len(HubOthers) = 2
        /\ ~Malformed(graph, 1)
     THEN IF graph.nodes[1].output_priority = NoPriority
          THEN { <<HubOthers[2].cond.rhs, Cap(SmallerOut(1)), 2>>,
                 <<HubOthers[2].else.rhs, Cap(SmallerOut(1)), 1>> }
          ELSE LET prio == get_edge(graph, 1, graph.nodes[1].output_priority)
               IN  { <<HubOthers[2].cond.rhs, Cap(prio), 1>>,
                     <<HubOthers[2].else.rhs, Cap(prio), 1>> }
     ELSE {})

\* C2: every capacity or threshold numeral that is emitted (edge capacity,
\* min capacity, 2 x min capacity, priority capacity) has exactly the value
\* of the rational it stands for; none is the value truncated modulo 2^32.
C2_LosslessConstants ==
    \A p \in CapacityNumerals : NumeralIs(p[1], Frac(MulSmall(p[3], p[2].num), p[2].den))

\* the node under test is a Splitter with one incoming and two outgoing edges
\* and this output priority (a side, or NoPriority), and was just encoded
SplitterCase(prios) ==
    /\ HubJustEncoded
    /\ HubIs("Splitter")
    /\ graph.nodes[1].output_priority \in prios
    /\ InArity(graph, 1) = 1
    /\ OutArity(graph, 1) = 2

\* the assignments to the edge constants that satisfy the whole constraint list
Models == { v \in Assignments(Range(helper.edge_map)) : Satisfies(v, helper.others) }

Twice(c) == Frac(MulSmall(2, c.num), c.den)

\* C3: for a Splitter with priority None, one incoming and two outgoing edges,
\* every assignment that satisfies the edge bounds, the conservation
\* constraint and the routing constraint has flow(min) = flow(max) = inflow/2
\* when inflow <= 2*capacity(min), and flow(min) = capacity(min),
\* flow(max) = inflow - capacity(min) when inflow > 2*capacity(min); min is
\* the outgoing edge of weakly smaller capacity, the first listed on a tie.
C3_SymmetricSplit ==
    SplitterCase({NoPriority}) =>
        /\ Returned(1)
        /\ LET in == in_edge_idx(graph, 1)[1]
               mn == SmallerOut(1)
               mx == LargerOut(1)
           IN  \A v \in Models :
                 IF ValLeqFrac(Flow(v, in), Twice(Cap(mn)))
                 THEN /\ Flow(v, mn) = Flow(v, mx)
                      /\ 2 * Flow(v, mn) = Flow(v, in)
                 ELSE /\ ValEqFrac(Flow(v, mn), Cap(mn))
                      /\ ValEqFrac(Flow(v, in) - Flow(v, mx), Cap(mn))

\* C4: for a Splitter with priority Some(side), one incoming and two outgoing
\* edges, every assignment that satisfies the edge bounds, the conservation
\* constraint and the routing constraint has flow(other) = 0 and
\* flow(prio) = inflow when inflow <= capacity(prio), and
\* flow(prio) = capacity(prio), flow(other) = inflow - capacity(prio) when
\* inflow > capacity(prio); prio is the outgoing edge on the designated side.
C4_PrioritySplit ==
    SplitterCase(Sides) =>
        /\ Returned(1)
        /\ LET in   == in_edge_idx(graph, 1)[1]
               prio == get_edge(graph, 1, graph.nodes[1].output_priority)
               oth  == get_edge(graph, 1, other(graph.nodes[1].output_priority))
           IN  \A v \in Models :
                 IF ValLeqFrac(Flow(v, in), Cap(prio))
                 THEN /\ Flow(v, oth) = 0
                      /\ Flow(v, prio) = Flow(v, in)
                 ELSE /\ ValEqFrac(Flow(v, prio), Cap(prio))
                      /\ ValEqFrac(Flow(v, in) - Flow(v, oth), Cap(prio))

\* C5: encoding an edge appends exactly two constraints, flow_edge <= capacity
\* and flow_edge >= 0, over one new flow variable registered under the edge's
\* identity in the edge map; so 0 <= flow(edge) <= capacity(edge) in every
\* assignment that satisfies the constraint list.
C5_EdgeBounds ==
    /\ pc <= NumEdges(graph) =>
          /\ Len(helper.others) = 2 * pc
          /\ DOMAIN helper.edge_map = 1..pc
          /\ Cardinality(Range(helper.edge_map)) = pc
    /\ \A e \in DOMAIN helper.edge_map :
          LET x  == helper.edge_map[e]
              le == helper.others[BoundAt(e)]
              ge == helper.others[BoundAt(e) + 1]
          IN  /\ x.t = "const" /\ x.sort = "Real"
              /\ le.t = "le" /\ le.lhs = x /\ NumeralIs(le.rhs, Cap(e))
              /\ ge.t = "ge" /\ ge.lhs = x /\ NumeralIs(ge.rhs, Frac(Nat128(0), Nat128(1)))
              /\ \A h \in Grid :
                    LET v == [n \in {x.name} |-> h]
                    IN  Holds(le, v) /\ Holds(ge, v) => h >= 0 /\ ValLeqFrac(h, Cap(e))

\* a coarse grid for constraints over many constants
SmallGrid == {0, 1}

FlowSum(v, idxs) == RatSum([i \in 1..Len(idxs) |-> <<Flow(v, idxs[i]), Scale>>])

C7_InputVariable ==
    \A n \in DOMAIN outcome :
        graph.nodes[n].kind = "Input" /\ OutArity(graph, n) = 1 =>
            /\ outcome[n] = "ok"
            /\ n \in DOMAIN helper.input_map
            /\ LET x == helper.input_map[n]
                   y == helper.edge_map[out_edge_idx(graph, n)[1]]
                   eqs == { i \in 1..Len(helper.others) :
                              /\ helper.others[i].t = "eq"
                              /\ helper.others[i].lhs \in {x, FromInt(x)}
                              /\ helper.others[i].rhs = y }
               IN  /\ x.t = "const" /\ x.sort = "Real"
                   /\ Cardinality(eqs) = 1
                   /\ \A i \in eqs :
                        /\ \A a \in Values(x.sort), b \in Values(y.sort) :
                              Holds(helper.others[i], Assign2(x, a, y, b)) <=> a = b
                        /\ \A b \in Grid : \E a \in Values(x.sort) :
                              Holds(helper.others[i], Assign2(x, a, y, b))

\* the pass is about to encode an Output node with exactly one incoming edge
AtOutput ==
    /\ AtNode("Output")
    /\ InArity(graph, NextNode) = 1

\* C8: for every Output node with exactly one incoming edge the encoder
\* returns, having created one new real-typed output variable, appended one
\* constraint equating it to the flow variable of the incoming edge, and
\* registered the variable under the node's identity in the output map; the
\* constraint holds exactly of the assignments in which the output value
\* equals the edge's flow, and the output can take every value of the flow.
C8_OutputVariable ==
    [][ AtOutput /\ pc' = pc + 1 =>
          LET n == NextNode
              y == helper.edge_map[in_edge_idx(graph, n)[1]]
              known == Range(helper.edge_map) \cup Range(helper.input_map)
                          \cup Range(helper.output_map)
          IN  /\ outcome'[n] = "ok"
              /\ DOMAIN helper'.output_map = DOMAIN helper.output_map \cup {n}
              /\ helper'.edge_map = helper.edge_map
              /\ helper'.input_map = helper.input_map
              /\ Len(helper'.others) = Len(helper.others) + 1
              /\ LET x == helper'.output_map[n]
                     c == helper'.others[Len(helper'.others)]
                 IN  /\ x.t = "const" /\ x.sort = "Real"
                     /\ \A z \in known : z.name # x.name
                     /\ c.t = "eq" /\ c.lhs = x /\ c.rhs = y
                     /\ \A a \in Values(x.sort), b \in Values(y.sort) :
                           Holds(c, Assign2(x, a, y, b)) <=> a = b
                     /\ \A b \in Grid : \E a \in Values(x.sort) :
                           Holds(c, Assign2(x, a, y, b))
      ]_vars

\* an Output node with one incoming edge has been encoded
C8_Witness ==
    \E n \in DOMAIN helper.output_map :
        /\ graph.nodes[n].kind = "Output"
        /\ InArity(graph, n) = 1
        /\ Returned(n)

IsPrefix(s, t) == Len(s) <= Len(t) /\ SubSeq(t, 1, Len(s)) = s

\* every entry of m is an entry of m2
Extends(m, m2) == \A k \in DOMAIN m : k \in DOMAIN m2 /\ m2[k] = m[k]

AllConsts(h) == Range(h.edge_map) \cup Range(h.input_map) \cup Range(h.output_map)

\* the node under test is a symmetric Splitter whose first two outgoing edges
\* have equal capacity, and its encoder returned
TieCase ==
    /\ HubIs("Splitter")
    /\ graph.nodes[1].output_priority = NoPriority
    /\ Returned(1)
    /\ OutArity(graph, 1) >= 2
    /\ LET o == out_edge_idx(graph, 1)
       IN  FracLeq(Cap(o[1]), Cap(o[2])) /\ FracLeq(Cap(o[2]), Cap(o[1]))

Prepared(h, g, n) ==
    \A e \in 1..NumEdges(g) :
        g.edges[e].src = n \/ g.edges[e].dst = n =>
            /\ e \in DOMAIN h.edge_map
            /\ \E i \in 1..Len(h.others) :
                  h.others[i].t = "le" /\ h.others[i].lhs = h.edge_map[e]
            /\ \E i \in 1..Len(h.others) :
                  h.others[i].t = "ge" /\ h.others[i].lhs = h.edge_map[e]

NodesOfKind(g, kind) == {n \in 1..NumNodes(g) : g.nodes[n].kind = kind}

\* a finished pass has one variable for every edge, Input and Output
Complete(h, g) ==
    /\ DOMAIN h.edge_map = 1..NumEdges(g)
    /\ DOMAIN h.input_map = NodesOfKind(g, "Input")
    /\ DOMAIN h.output_map = NodesOfKind(g, "Output")
    /\ Cardinality(AllConsts(h)) = NumEdges(g) + Cardinality(NodesOfKind(g, "Input"))
                                     + Cardinality(NodesOfKind(g, "Output"))

\* C10: within one pass every encoder step keeps the constraints appended so
\* far, in order, and keeps every entry of the three maps; a node encoder
\* leaves the edge map as it is, and finds the flow variable and both bound
\* constraints of every edge incident to its node already in the context; a
\* finished pass has mapped every edge, Input and Output identity to one
\* variable of its own.
C10_ContextOnlyGrows ==
    [][ pass' = pass =>
          /\ IsPrefix(helper.others, helper'.others)
          /\ Extends(helper.edge_map, helper'.edge_map)
          /\ Extends(helper.input_map, helper'.input_map)
          /\ Extends(helper.output_map, helper'.output_map)
          /\ pc >= NumEdges(graph) =>
                /\ helper'.edge_map = helper.edge_map
                /\ Prepared(helper, graph, NextNode)
          /\ pc' = Total(graph) /\ ~crashed' => Complete(helper', graph)
      ]_vars

\* a conservation constraint has been appended after other constraints
C10_Witness ==
    /\ pc > NumEdges(graph)
    /\ graph.nodes[1].kind \in {"Connector", "Merger", "Splitter"}
    /\ Returned(1)
    /\ Len(helper.others) > 2 * NumEdges(graph)
    /\ NumEdges(graph) >= 2

====
